---- MODULE Spec2Model ----
(***************************************************************************)
(* Model of gh-smartsheet.py: a one-directional synchroniser that mirrors  *)
(* the issues of one GitHub repository into the rows of one Smartsheet.    *)
(*                                                                         *)
(* Python values are tagged records: None, int and str.  A str is the      *)
(* sequence of its character codes, so that str(), int() and .lower() are  *)
(* computed on the characters as Python computes them.                     *)
(***************************************************************************)
EXTENDS Integers, Sequences, FiniteSets, TLC

\* ------------------------------------------------------------------ bounds
MaxIssues == 2      \* longest issue list the tracker returns
MaxRuns == 2        \* number of successive invocations of main()
MaxEdits == 1       \* upstream edits of the tracker during the behaviour

\* ------------------------------------------------------- program constants
DefaultBatchSize == 300

\* ------------------------------------------------------------ Python values
None == [t |-> "none"]
PyI(n) == [t |-> "int", v |-> n]
PyS(s) == [t |-> "str", v |-> s]

S_open == <<111, 112, 101, 110>>
S_Open == <<79, 112, 101, 110>>
S_closed == <<99, 108, 111, 115, 101, 100>>
S_None == <<78, 111, 110, 101>>
S_A == <<65>>
S_B == <<66>>
S_7 == <<55>>
S_x == <<120>>

\* Python ==, on the values of the model (an int never equals a str)
PyEq(a, b) == a.t = b.t /\ (a.t = "none" \/ a.v = b.v)

RECURSIVE Digits(_)
Digits(n) == IF n < 10 THEN <<48 + n>> ELSE Digits(n \div 10) \o <<48 + (n % 10)>>

\* str(x), as a character sequence
PyStr(x) ==
    CASE x.t = "none" -> S_None
      [] x.t = "int" -> IF x.v < 0 THEN <<45>> \o Digits(0 - x.v) ELSE Digits(x.v)
      [] x.t = "str" -> x.v

\* str.lower(): the ASCII capitals move to the small letters
PyLower(s) == [i \in DOMAIN s |-> IF s[i] \in 65..90 THEN s[i] + 32 ELSE s[i]]

IsSpace(c) == c \in {32, 9, 10, 13}
IsDigit(c) == c \in 48..57

RECURSIVE Strip(_)
Strip(s) ==
    IF s = <<>> THEN s
    ELSE IF IsSpace(Head(s)) THEN Strip(Tail(s))
    ELSE IF IsSpace(s[Len(s)]) THEN Strip(SubSeq(s, 1, Len(s) - 1))
    ELSE s

RECURSIVE DigitsValue(_)
DigitsValue(s) ==
    IF s = <<>> THEN 0 ELSE 10 * DigitsValue(SubSeq(s, 1, Len(s) - 1)) + (s[Len(s)] - 48)

Unsigned(s) == IF s # <<>> /\ Head(s) \in {43, 45} THEN Tail(s) ELSE s

\* int(x) succeeds: an int, or a str that is an optionally signed run of
\* digits once stripped; None raises TypeError, other text ValueError
IntParses(x) ==
    CASE x.t = "int" -> TRUE
      [] x.t = "none" -> FALSE
      [] x.t = "str" ->
            LET u == Unsigned(Strip(x.v))
            IN  u # <<>> /\ \A i \in DOMAIN u : IsDigit(u[i])

PyInt(x) ==
    CASE x.t = "int" -> x.v
      [] x.t = "str" ->
            LET s == Strip(x.v)
                n == DigitsValue(Unsigned(s))
            IN  IF Head(s) = 45 THEN 0 - n ELSE n

\* --------------------------------------------------------------- check_env
EnvNames == <<"GITHUB_TOKEN", "SMARTSHEET_TOKEN", "SMARTSHEET_SHEET_ID">>

\* variant: "if v is None" in place of "if not v"
Falsy_noneOnly(v) == v.t = "none"

\* Python truthiness of an os.getenv result: None and "" are falsy
Falsy(v) == v.t = "none" \/ (v.t = "str" /\ v.v = <<>>)

\* missing = [k for k, v in {...}.items() if not v]
Missing(e) == SelectSeq(EnvNames, LAMBDA k : Falsy(e[k]))

\* --------------------------------------------------- get_or_create_columns
Required == <<"Issue Number", "Title", "Status">>

\* variant: the dict of existing columns keyed by c["id"], not c["title"]
InExisting_byId(title, cols) == \E i \in DOMAIN cols : ToString(cols[i].id) = title

\* existing = {c["title"]: c for c in columns}: a later column of the same
\* title replaces an earlier one
InExisting(title, cols) == \E i \in DOMAIN cols : cols[i].title = title

ExistingId(title, cols) ==
    LET last == CHOOSE i \in DOMAIN cols :
                    /\ cols[i].title = title
                    /\ \A j \in DOMAIN cols : cols[j].title = title => j <= i
    IN  cols[last].id

\* extract_id: the created column under "result" (an object, or the first
\* of a list), or the raw column object; anything else raises ValueError
ExtractIdOk(resp) == "result" \in DOMAIN resp \/ "id" \in DOMAIN resp

ExtractId(resp) ==
    IF "result" \in DOMAIN resp
    THEN IF "list" \in DOMAIN resp.result
         THEN resp.result.list[1].id
         ELSE resp.result.id
    ELSE resp.id

\* the shapes in which the service may answer a create-column request
CreateResponses(col) ==
    { [message |-> "SUCCESS", result |-> col],
      [message |-> "SUCCESS", result |-> [list |-> <<col>>]],
      col,
      [message |-> "SUCCESS"] }

\* -------------------------------------------------------- build_sheet_index
HasKey(rec, k) == k \in DOMAIN rec

\* cell.get("value", cell.get("displayValue"))
cell_value(cell) ==
    IF HasKey(cell, "value") THEN cell.value
    ELSE IF HasKey(cell, "displayValue") THEN cell.displayValue
    ELSE None

\* the for-loop over row["cells"]: the last cell of a column decides
RECURSIVE ScanCells(_, _, _)
ScanCells(cells, ids, acc) ==
    IF cells = <<>> THEN acc
    ELSE LET c == Head(cells)
             cid == c.columnId
             nxt == IF cid = ids["Issue Number"] THEN [acc EXCEPT !.num = cell_value(c)]
                    ELSE IF cid = ids["Title"] THEN [acc EXCEPT !.title = cell_value(c)]
                    ELSE IF cid = ids["Status"] THEN [acc EXCEPT !.status = cell_value(c)]
                    ELSE acc
         IN  ScanCells(Tail(cells), ids, nxt)

\* variant: the number key always kept in its string form
NumKey_str(num) == PyS(PyStr(num))

\* try: num_key = int(num)  except (TypeError, ValueError): num_key = str(num)
NumKey(num) == IF IntParses(num) THEN PyI(PyInt(num)) ELSE PyS(PyStr(num))

\* variant: rows keyed by the issue number alone
KeyEq_numberOnly(k1, k2) == PyEq(k1.num, k2.num)

\* equality of two (number, title) tuples
KeyEq(k1, k2) == PyEq(k1.num, k2.num) /\ PyEq(k1.title, k2.title)

\* a dict kept as the sequence of its items in insertion order
InIndex(idx, key) == \E i \in DOMAIN idx : KeyEq(idx[i].key, key)

IndexGet(idx, key) == idx[CHOOSE i \in DOMAIN idx : KeyEq(idx[i].key, key)].val

IndexPut(idx, key, val) ==
    IF InIndex(idx, key)
    THEN [i \in DOMAIN idx |-> IF KeyEq(idx[i].key, key) THEN [key |-> idx[i].key, val |-> val]
                                ELSE idx[i]]
    ELSE Append(idx, [key |-> key, val |-> val])

RECURSIVE IndexRows(_, _, _)
IndexRows(rs, ids, idx) ==
    IF rs = <<>> THEN idx
    ELSE LET row == Head(rs)
             got == ScanCells(row.cells, ids, [num |-> None, title |-> None, status |-> None])
             nxt == IF got.num # None /\ got.title # None
                    THEN IndexPut(idx,
                                  [num |-> NumKey(got.num), title |-> PyS(PyStr(got.title))],
                                  [rowId |-> row.id, status |-> got.status])
                    ELSE idx
         IN  IndexRows(Tail(rs), ids, nxt)

build_sheet_index(rs, ids) == IndexRows(rs, ids, <<>>)

\* ------------------------------------------------------ add_issue_rows: plan
IssueKey(it) == [num |-> it.number, title |-> it.title]

InsertEntry(it, ids) ==
    [cells |-> << [columnId |-> ids["Issue Number"], value |-> it.number],
                  [columnId |-> ids["Title"], value |-> it.title],
                  [columnId |-> ids["Status"], value |-> it.state] >>]

\* variant: the update rewrites the three managed cells
UpdateEntry_allCells(current, it, ids) ==
    [id |-> current.rowId, cells |-> InsertEntry(it, ids).cells]

UpdateEntry(current, it, ids) ==
    [id |-> current.rowId,
     cells |-> << [columnId |-> ids["Status"], value |-> it.state] >>]

\* variant: the statuses compared as written
StatusDiffers_caseSensitive(existing_status, state) ==
    PyStr(existing_status) # PyStr(state)

\* str(existing_status).lower() != str(it["state"]).lower()
StatusDiffers(existing_status, state) ==
    PyLower(PyStr(existing_status)) # PyLower(PyStr(state))

\* the for-loop over issues, filling to_add and to_update
RECURSIVE PlanLoop(_, _, _, _)
PlanLoop(its, idx, ids, acc) ==
    IF its = <<>> THEN acc
    ELSE LET it == Head(its)
             key == IssueKey(it)
             nxt == IF ~InIndex(idx, key)
                    THEN [acc EXCEPT !.to_add = Append(@, InsertEntry(it, ids))]
                    ELSE IF StatusDiffers(IndexGet(idx, key).status, it.state)
                    THEN [acc EXCEPT !.to_update = Append(@, UpdateEntry(IndexGet(idx, key), it, ids))]
                    ELSE acc
         IN  PlanLoop(Tail(its), idx, ids, nxt)

Plan(its, idx, ids) == PlanLoop(its, idx, ids, [to_add |-> <<>>, to_update |-> <<>>])

\* ----------------------------------------------------- add_issue_rows: chunk
Min(a, b) == IF a < b THEN a ELSE b

\* seq[i:j] for 0 <= i <= j
PySlice(seq, i, j) == SubSeq(seq, i + 1, Min(j, Len(seq)))

\* range(0, stop, step), in increasing order
RangeLen(stop, step) == Cardinality({i \in 0..(stop - 1) : i % step = 0})

\* variant: the slice ends one entry early, seq[i:i+n-1]
chunk_offByOne(seq, n) ==
    [k \in 1..RangeLen(Len(seq), n) |-> PySlice(seq, (k - 1) * n, (k - 1) * n + n - 1)]

\* list(chunk(seq, n)): seq[i:i+n] for i in range(0, len(seq), n)
chunk(seq, n) ==
    [k \in 1..RangeLen(Len(seq), n) |-> PySlice(seq, (k - 1) * n, (k - 1) * n + n)]

\* ------------------------------------------------------ the Smartsheet service
\* POST /sheets/{id}/columns: the new column goes to position index (0-based)
ServerAddColumn(cols, col, index) ==
    SubSeq(cols, 1, index) \o <<col>> \o SubSeq(cols, index + 1, Len(cols))

\* POST /sheets/{id}/rows: every entry becomes a new row at the bottom, with
\* a fresh identifier
ServerAddRows(rs, group, firstId) ==
    rs \o [k \in DOMAIN group |-> [id |-> firstId + k - 1, cells |-> group[k].cells]]

\* one cell written into a row: it replaces the row's cell of that column,
\* or joins the row
WriteCell(cells, c) ==
    IF \E i \in DOMAIN cells : cells[i].columnId = c.columnId
    THEN [i \in DOMAIN cells |-> IF cells[i].columnId = c.columnId THEN c ELSE cells[i]]
    ELSE Append(cells, c)

RECURSIVE WriteCells(_, _)
WriteCells(cells, cs) ==
    IF cs = <<>> THEN cells ELSE WriteCells(WriteCell(cells, Head(cs)), Tail(cs))

\* PUT /sheets/{id}/rows: every entry patches the cells it names in the row
\* of its id, in the order of the entries
RECURSIVE ServerUpdateRows(_, _)
ServerUpdateRows(rs, group) ==
    IF group = <<>> THEN rs
    ELSE LET e == Head(group)
             patched == [i \in DOMAIN rs |->
                            IF rs[i].id = e.id
                            THEN [id |-> rs[i].id, cells |-> WriteCells(rs[i].cells, e.cells)]
                            ELSE rs[i]]
         IN  ServerUpdateRows(patched, Tail(group))

\* ------------------------------------------------------------ initial sheets
AllColumns ==
    << [id |-> 1, title |-> "Notes"],
       [id |-> 2, title |-> "Issue Number"],
       [id |-> 3, title |-> "Title"],
       [id |-> 4, title |-> "Status"] >>

RequiredSet == {Required[i] : i \in DOMAIN Required}

InitColumnSets ==
    { SelectSeq(AllColumns, LAMBDA c : c.title = "Notes" \/ c.title \in S) :
        S \in SUBSET RequiredSet }

Absent == <<>>
NumCells == { <<[columnId |-> 2, value |-> v]>> :
                v \in {PyI(7), PyI(8), PyS(S_7), PyS(S_x)} }
TitleCell == <<[columnId |-> 3, value |-> PyS(S_A)]>>
StatusCells == { Absent,
                 <<[columnId |-> 4, value |-> PyS(S_Open), displayValue |-> PyS(S_Open)]>>,
                 <<[columnId |-> 4, displayValue |-> PyS(S_closed)]>> }
NotesCell == <<[columnId |-> 1, value |-> PyS(S_x)]>>

\* the cells of a row, before the service has given it an identifier
InitRowCells ==
    { NotesCell \o n \o TitleCell \o s : n \in NumCells, s \in StatusCells }
      \cup { NotesCell \o TitleCell \o <<[columnId |-> 4, value |-> PyS(S_Open)]>>,
             NotesCell \o <<[columnId |-> 2, value |-> PyI(7)]>>
                       \o <<[columnId |-> 4, value |-> PyS(S_Open)]>> }

\* a second row of the same or of another key under a row of key (7, "A")
SecondRowCells ==
    { NotesCell \o <<[columnId |-> 2, value |-> PyS(S_7)]>> \o TitleCell \o s :
        s \in StatusCells }
      \cup { NotesCell \o <<[columnId |-> 2, value |-> PyI(8)]>> \o TitleCell
                       \o <<[columnId |-> 4, displayValue |-> PyS(S_closed)]>> }

FirstRowCells ==
    NotesCell \o <<[columnId |-> 2, value |-> PyI(7)]>> \o TitleCell
              \o <<[columnId |-> 4, value |-> PyS(S_Open), displayValue |-> PyS(S_Open)]>>

InitRowSets ==
    { <<>> }
      \cup { <<[id |-> 1, cells |-> c]>> : c \in InitRowCells }
      \cup { <<[id |-> 1, cells |-> FirstRowCells], [id |-> 2, cells |-> c]>> :
               c \in SecondRowCells }

\* ------------------------------------------------------------------ tracker
IssueRecords ==
    { [number |-> PyI(7), title |-> PyS(S_A), state |-> PyS(S_open)],
      [number |-> PyI(7), title |-> PyS(S_A), state |-> PyS(S_closed)],
      [number |-> PyI(7), title |-> PyS(S_B), state |-> PyS(S_open)] }

IssueLists == UNION { [1..n -> IssueRecords] : n \in 0..MaxIssues }

EnvValues == { None, PyS(<<>>), PyS(S_x) }
EnvNameSet == {EnvNames[i] : i \in DOMAIN EnvNames}

\* the configurations tried: complete, one value missing or empty, all missing
Envs ==
    { e \in [EnvNameSet -> EnvValues] :
        \/ Cardinality({k \in EnvNameSet : e[k] # PyS(S_x)}) <= 1
        \/ \A k \in EnvNameSet : e[k] = None }

\* the batch_size arguments tried: two small ones, and the default main() uses
BatchSizes == {1, 2, DefaultBatchSize}

\* ---------------------------------------------------------------------- state
VARIABLES
    pc,          \* where main() is: "start", a step of the run, or how it ended
    runs,        \* invocations of main() so far
    env,         \* the three configuration values read by check_env
    exit_code,   \* sys.exit status, None while none
    error,       \* the exception that ended the run, None while none
    summary,     \* the final "Smartsheet sync complete" line, None while none
    logged,      \* the issues printed by collect_github_issues
    fetches,     \* repo.get_issues iterations completed in this run
    issues,      \* the list collect_github_issues returns
    columns,     \* the sheet's columns, at the service
    rows,        \* the sheet's rows, at the service
    nextColId,   \* next column identifier of the service
    nextRowId,   \* next row identifier of the service
    repo,        \* the issues of the repository, at the tracker
    edits,       \* upstream edits so far
    sheet_meta,  \* sheet["columns"] as read by get_or_create_columns
    col_ids,     \* the title -> identifier mapping being built
    ci,          \* position of the loop over required
    next_index,  \* index at which the next created column is placed
    batch_size,  \* the batch_size argument of add_issue_rows
    index,       \* build_sheet_index(existing_rows, col_ids)
    to_add,      \* pending inserts
    to_update,   \* pending updates
    bi,          \* batches of the current list already sent
    calls,       \* the requests of this run, in order, with their outcome
    start,       \* the sheet as it was when this run began
    stale,       \* the sheet is not as a completed run on the tracker's
                 \* present issues has left it
    rerun,       \* this run listed the issues the completed run before it had
    returned     \* the mappings get_or_create_columns has returned so far

vars == << pc, runs, env, exit_code, error, summary, logged, fetches, issues,
           columns, rows, nextColId, nextRowId, repo, edits, sheet_meta,
           col_ids, ci, next_index, batch_size, index, to_add, to_update, bi, calls,
           start, stale, rerun, returned >>

sheetVars == << columns, rows, nextColId, nextRowId >>
planVars == << batch_size, index, to_add, to_update, bi >>
colVars == << sheet_meta, col_ids, ci, next_index, returned >>
issueVars == << logged, fetches, issues >>
runVars == << runs, env, start, rerun >>
envVars == << repo, edits, stale >>

NoIds == [t \in {} |-> 0]

Ended == {"done", "aborted", "exit"}

Init ==
    /\ pc = "start"
    /\ runs = 0
    /\ env = [k \in EnvNameSet |-> None]
    /\ exit_code = None
    /\ error = None
    /\ summary = None
    /\ logged = <<>>
    /\ fetches = 0
    /\ issues = <<>>
    /\ columns \in InitColumnSets
    /\ rows \in (IF Len(columns) = Len(AllColumns) THEN InitRowSets ELSE {<<>>})
    /\ nextColId = Len(AllColumns) + 1
    /\ nextRowId = Len(rows) + 1
    /\ repo \in IssueLists
    /\ edits = 0
    /\ sheet_meta = <<>>
    /\ col_ids = NoIds
    /\ ci = 1
    /\ next_index = 0
    /\ batch_size = DefaultBatchSize
    /\ index = <<>>
    /\ to_add = <<>>
    /\ to_update = <<>>
    /\ bi = 0
    /\ calls = <<>>
    /\ start = [columns |-> columns, rows |-> rows]
    /\ stale = TRUE
    /\ rerun = FALSE
    /\ returned = {}

Call(method, url, ok) == [method |-> method, url |-> url, ok |-> ok]
CallB(method, url, body, ok) == [method |-> method, url |-> url, body |-> body, ok |-> ok]

\* what raise_for_status() raises on a non-2xx answer
HTTPError(method, url) == [type |-> "HTTPError", method |-> method, url |-> url]

\* -------------------------------------------------------------------- main()
\* main() is entered; check_env reads the configuration and exits with
\* status 1 when a value is missing or empty
check_env ==
    /\ pc \in Ended \cup {"start"}
    /\ runs < MaxRuns
    /\ \E e \in Envs :
         /\ env' = e
         /\ IF Missing(e) # <<>>
            THEN /\ pc' = "exit"
                 /\ exit_code' = PyI(1)
                 /\ error' = [type |-> "SystemExit", missing |-> Missing(e)]
            ELSE /\ pc' = "get_columns"
                 /\ exit_code' = None
                 /\ error' = None
    /\ runs' = runs + 1
    /\ summary' = None
    /\ logged' = <<>>
    /\ fetches' = 0
    /\ issues' = <<>>
    /\ sheet_meta' = <<>>
    /\ col_ids' = NoIds
    /\ ci' = 1
    /\ next_index' = 0
    /\ batch_size' = DefaultBatchSize
    /\ index' = <<>>
    /\ to_add' = <<>>
    /\ to_update' = <<>>
    /\ bi' = 0
    /\ calls' = <<>>
    /\ start' = [columns |-> columns, rows |-> rows]
    /\ stale' = (stale \/ pc # "done")
    /\ rerun' = FALSE
    /\ UNCHANGED << sheetVars, repo, edits, returned >>

\* an exception nobody catches ends the process with status 1
Abort(err) ==
    /\ pc' = "aborted"
    /\ error' = err
    /\ exit_code' = PyI(1)

\* ------------------------------------------------------ get_or_create_columns
MetaUrl == "/sheets/{id}"
ColumnsUrl == "/sheets/{id}/columns"
RowsUrl == "/sheets/{id}/rows"
IssuesUrl == "/repos/innabox/issues/issues"

\* sheet = fetch_smartsheet(sheet_id, token)
fetch_smartsheet_ok ==
    /\ pc = "get_columns"
    /\ sheet_meta' = columns
    /\ next_index' = Len(columns)
    /\ calls' = Append(calls, Call("GET", MetaUrl, TRUE))
    /\ pc' = "column_loop"
    /\ UNCHANGED << runVars, exit_code, error, summary, issueVars, sheetVars,
                    envVars, col_ids, ci, returned, planVars >>

fetch_smartsheet_fail ==
    /\ pc = "get_columns"
    /\ calls' = Append(calls, Call("GET", MetaUrl, FALSE))
    /\ Abort(HTTPError("GET", MetaUrl))
    /\ UNCHANGED << runVars, summary, issueVars, sheetVars, envVars, colVars,
                    planVars >>

WithId(ids, title, id) ==
    [t \in DOMAIN ids \cup {title} |-> IF t = title THEN id ELSE ids[t]]

\* the end of one iteration of "for title, col_type in required": the next
\* title, or "return col_ids" and on to collect_github_issues
NextTitle(ids) ==
    IF ci = Len(Required)
    THEN /\ pc' = "collect_log"
         /\ ci' = ci
         /\ returned' = returned \cup {ids}
    ELSE /\ pc' = "column_loop"
         /\ ci' = ci + 1
         /\ returned' = returned

\* if title in existing: col_ids[title] = existing[title]["id"]; continue
reuse_column ==
    /\ pc = "column_loop"
    /\ InExisting(Required[ci], sheet_meta)
    /\ col_ids' = WithId(col_ids, Required[ci], ExistingId(Required[ci], sheet_meta))
    /\ NextTitle(col_ids')
    /\ UNCHANGED << runVars, exit_code, error, summary, issueVars, sheetVars,
                    envVars, sheet_meta, next_index, planVars, calls >>

\* the create-column request succeeds: the service has the column, and
\* extract_id reads its identifier from the answer or raises ValueError
create_column_ok ==
    /\ pc = "column_loop"
    /\ ~InExisting(Required[ci], sheet_meta)
    /\ LET payload == [title |-> Required[ci], type |-> "TEXT_NUMBER", index |-> next_index]
           col == [id |-> nextColId, title |-> payload.title]
       IN  /\ columns' = ServerAddColumn(columns, col, payload.index)
           /\ nextColId' = nextColId + 1
           /\ calls' = Append(calls, CallB("POST", ColumnsUrl, payload, TRUE))
           /\ \E resp \in CreateResponses(col) :
                IF ExtractIdOk(resp)
                THEN /\ col_ids' = WithId(col_ids, Required[ci], ExtractId(resp))
                     /\ next_index' = next_index + 1
                     /\ NextTitle(col_ids')
                     /\ UNCHANGED << exit_code, error >>
                ELSE /\ Abort([type |-> "ValueError"])
                     /\ UNCHANGED << col_ids, next_index, ci, returned >>
    /\ UNCHANGED << runVars, summary, issueVars, rows, nextRowId, envVars,
                    sheet_meta, planVars >>

create_column_fail ==
    /\ pc = "column_loop"
    /\ ~InExisting(Required[ci], sheet_meta)
    /\ calls' = Append(calls,
                       CallB("POST", ColumnsUrl,
                             [title |-> Required[ci], type |-> "TEXT_NUMBER", index |-> next_index],
                             FALSE))
    /\ Abort(HTTPError("POST", ColumnsUrl))
    /\ UNCHANGED << runVars, summary, issueVars, sheetVars, envVars, colVars,
                    planVars >>

\* ----------------------------------------------------- collect_github_issues
\* the first "for issue in repo.get_issues(state="all")": one line per issue
fetch_issues_log_ok ==
    /\ pc = "collect_log"
    /\ logged' = repo
    /\ fetches' = fetches + 1
    /\ calls' = Append(calls, Call("GET", IssuesUrl, TRUE))
    /\ pc' = "collect_data"
    /\ UNCHANGED << runVars, exit_code, error, summary, issues, sheetVars,
                    envVars, colVars, planVars >>

fetch_issues_log_fail ==
    /\ pc = "collect_log"
    /\ calls' = Append(calls, Call("GET", IssuesUrl, FALSE))
    /\ Abort([type |-> "GithubException"])
    /\ UNCHANGED << runVars, summary, issueVars, sheetVars, envVars, colVars,
                    planVars >>

\* the second "for issue in repo.get_issues(state="all")": the records
fetch_issues_data_ok ==
    /\ pc = "collect_data"
    /\ issues' = [i \in DOMAIN repo |->
                    [number |-> repo[i].number, title |-> repo[i].title,
                     state |-> repo[i].state]]
    /\ fetches' = fetches + 1
    /\ calls' = Append(calls, Call("GET", IssuesUrl, TRUE))
    /\ rerun' = ~stale
    /\ stale' = FALSE
    /\ pc' = "fetch_rows"
    /\ UNCHANGED << runs, env, start, exit_code, error, summary, logged,
                    sheetVars, repo, edits, colVars, planVars >>

fetch_issues_data_fail ==
    /\ pc = "collect_data"
    /\ calls' = Append(calls, Call("GET", IssuesUrl, FALSE))
    /\ Abort([type |-> "GithubException"])
    /\ UNCHANGED << runVars, summary, issueVars, sheetVars, envVars, colVars,
                    planVars >>

\* one operation at the tracker: an issue is opened, or one issue is closed,
\* reopened or retitled
UpstreamEdits(r) ==
    { q \in IssueLists :
        \/ /\ Len(q) = Len(r) + 1
           /\ SubSeq(q, 1, Len(r)) = r
        \/ /\ Len(q) = Len(r)
           /\ Cardinality({i \in DOMAIN r : q[i] # r[i]}) = 1 }

\* the tracker changes between the two listings of a run, or between two runs
upstream_edit ==
    /\ \/ pc = "collect_data"
       \/ pc \in Ended /\ runs < MaxRuns
    /\ edits < MaxEdits
    /\ edits' = edits + 1
    /\ repo' \in UpstreamEdits(repo)
    /\ stale' = TRUE
    /\ UNCHANGED << pc, runVars, exit_code, error, summary, issueVars,
                    sheetVars, colVars, planVars, calls >>

\* ------------------------------------------------------------- add_issue_rows
\* print(f"Smartsheet sync complete. Added ... new rows, updated ... statuses.")
Finish(adds, upds) ==
    /\ pc' = "done"
    /\ summary' = [added |-> Len(adds), updated |-> Len(upds)]
    /\ exit_code' = PyI(0)

\* what follows the insert batches: "if to_update:" and its loop, or the end
AfterAdds(adds, upds) ==
    IF upds # <<>>
    THEN /\ pc' = "put_rows"
         /\ bi' = 0
         /\ UNCHANGED << summary, exit_code >>
    ELSE /\ bi' = 0
         /\ Finish(adds, upds)

\* existing_rows = fetch_all_rows(...); the index and the two lists are built
fetch_all_rows_ok ==
    /\ pc = "fetch_rows"
    /\ calls' = Append(calls, Call("GET", MetaUrl, TRUE))
    /\ \E b \in BatchSizes : batch_size' = b
    /\ index' = build_sheet_index(rows, col_ids)
    /\ LET p == Plan(issues, index', col_ids)
       IN  /\ to_add' = p.to_add
           /\ to_update' = p.to_update
           /\ IF p.to_add # <<>>
              THEN /\ pc' = "post_rows"
                   /\ bi' = 0
                   /\ UNCHANGED << summary, exit_code >>
              ELSE AfterAdds(p.to_add, p.to_update)
    /\ UNCHANGED << runVars, error, issueVars, sheetVars, envVars, colVars >>

\* variant: fetch_all_rows without raise_for_status(); the error body has no
\* "rows", so the index is built from the empty list
fetch_all_rows_fail_noraise ==
    /\ pc = "fetch_rows"
    /\ calls' = Append(calls, Call("GET", MetaUrl, FALSE))
    /\ \E b \in BatchSizes : batch_size' = b
    /\ index' = build_sheet_index(<<>>, col_ids)
    /\ LET p == Plan(issues, index', col_ids)
       IN  /\ to_add' = p.to_add
           /\ to_update' = p.to_update
           /\ IF p.to_add # <<>>
              THEN /\ pc' = "post_rows"
                   /\ bi' = 0
                   /\ UNCHANGED << summary, exit_code >>
              ELSE AfterAdds(p.to_add, p.to_update)
    /\ UNCHANGED << runVars, error, issueVars, sheetVars, envVars, colVars >>

fetch_all_rows_fail ==
    /\ pc = "fetch_rows"
    /\ calls' = Append(calls, Call("GET", MetaUrl, FALSE))
    /\ Abort(HTTPError("GET", MetaUrl))
    /\ UNCHANGED << runVars, summary, issueVars, sheetVars, envVars, colVars,
                    planVars >>

\* one iteration of "for group in chunk(to_add, batch_size)": requests.post
post_rows_ok ==
    /\ pc = "post_rows"
    /\ LET groups == chunk(to_add, batch_size)
           group == groups[bi + 1]
       IN  /\ calls' = Append(calls, CallB("POST", RowsUrl, group, TRUE))
           /\ rows' = ServerAddRows(rows, group, nextRowId)
           /\ nextRowId' = nextRowId + Len(group)
           /\ IF bi + 1 = Len(groups)
              THEN AfterAdds(to_add, to_update)
              ELSE /\ bi' = bi + 1
                   /\ UNCHANGED << pc, summary, exit_code >>
    /\ UNCHANGED << runVars, error, issueVars, columns, nextColId, envVars,
                    colVars, batch_size, index, to_add, to_update >>

post_rows_fail ==
    /\ pc = "post_rows"
    /\ calls' = Append(calls, CallB("POST", RowsUrl, chunk(to_add, batch_size)[bi + 1], FALSE))
    /\ Abort(HTTPError("POST", RowsUrl))
    /\ UNCHANGED << runVars, summary, issueVars, sheetVars, envVars, colVars,
                    planVars >>

\* one iteration of "for group in chunk(to_update, batch_size)": requests.put
put_rows_ok ==
    /\ pc = "put_rows"
    /\ LET groups == chunk(to_update, batch_size)
           group == groups[bi + 1]
       IN  /\ calls' = Append(calls, CallB("PUT", RowsUrl, group, TRUE))
           /\ rows' = ServerUpdateRows(rows, group)
           /\ IF bi + 1 = Len(groups)
              THEN /\ bi' = bi + 1
                   /\ Finish(to_add, to_update)
              ELSE /\ bi' = bi + 1
                   /\ UNCHANGED << pc, summary, exit_code >>
    /\ UNCHANGED << runVars, error, issueVars, columns, nextColId, nextRowId,
                    envVars, colVars, batch_size, index, to_add, to_update >>

put_rows_fail ==
    /\ pc = "put_rows"
    /\ calls' = Append(calls, CallB("PUT", RowsUrl, chunk(to_update, batch_size)[bi + 1], FALSE))
    /\ Abort(HTTPError("PUT", RowsUrl))
    /\ UNCHANGED << runVars, summary, issueVars, sheetVars, envVars, colVars,
                    planVars >>

Next ==
    \/ check_env
    \/ fetch_smartsheet_ok
    \/ fetch_smartsheet_fail
    \/ reuse_column
    \/ create_column_ok
    \/ create_column_fail
    \/ fetch_issues_log_ok
    \/ fetch_issues_log_fail
    \/ fetch_issues_data_ok
    \/ fetch_issues_data_fail
    \/ upstream_edit
    \/ fetch_all_rows_ok
    \/ fetch_all_rows_fail
    \/ post_rows_ok
    \/ post_rows_fail
    \/ put_rows_ok
    \/ put_rows_fail

Spec == Init /\ [][Next]_vars

\* ===================================================================== claims
\* the plan of this run has been computed by add_issue_rows
Planned == pc \in {"post_rows", "put_rows", "done"}

\* the issue's (number, title) is a key of the index
Indexed(it) ==
    \E i \in DOMAIN index :
        index[i].key.num = it.number /\ index[i].key.title = it.title

IndexedAs(it) ==
    index[CHOOSE i \in DOMAIN index :
            index[i].key.num = it.number /\ index[i].key.title = it.title].val

\* the two statuses differ once both are written out and lower-cased
DiffersNoCase(status, state) == PyLower(PyStr(status)) # PyLower(PyStr(state))

ManagedCells(it) ==
    << [columnId |-> col_ids["Issue Number"], value |-> it.number],
       [columnId |-> col_ids["Title"], value |-> it.title],
       [columnId |-> col_ids["Status"], value |-> it.state] >>

StatusCellOnly(it) == << [columnId |-> col_ids["Status"], value |-> it.state] >>

AbsentIssues == SelectSeq(issues, LAMBDA it : ~Indexed(it))

ChangedIssues ==
    SelectSeq(issues, LAMBDA it : Indexed(it) /\ DiffersNoCase(IndexedAs(it).status, it.state))

\* C1: once the plan is made, to_add holds exactly one entry per issue whose
\* key is not in the index, in the order of the issues, each with the three
\* managed cells of its issue (so two absent issues of one number and two
\* titles get one insert each), and every update entry targets the indexed
\* row of an issue that is in the index, none an absent issue.
C1_InsertPerAbsentIssue ==
    Planned =>
        /\ to_add = [k \in DOMAIN AbsentIssues |-> [cells |-> ManagedCells(AbsentIssues[k])]]
        /\ \A u \in DOMAIN to_update :
             \E j \in DOMAIN issues :
                Indexed(issues[j]) /\ to_update[u].id = IndexedAs(issues[j]).rowId

C1_Witness ==
    /\ Planned
    /\ Len(to_add) = 2
    /\ to_add[1].cells[1].value = to_add[2].cells[1].value
    /\ to_add[1].cells[2].value # to_add[2].cells[2].value
    /\ index # <<>>

\* C2: once the plan is made, to_update holds exactly one entry per issue
\* whose key is in the index with a status that differs case-insensitively
\* from the issue's state; the entry's id is the indexed rowId and its cells
\* are the Status cell alone, set to the issue's state; and every insert
\* entry is that of an issue absent from the index.
C2_UpdatePerChangedIssue ==
    Planned =>
        /\ to_update = [k \in DOMAIN ChangedIssues |->
                          [id |-> IndexedAs(ChangedIssues[k]).rowId,
                           cells |-> StatusCellOnly(ChangedIssues[k])]]
        /\ \A a \in DOMAIN to_add :
             \E j \in DOMAIN issues :
                ~Indexed(issues[j]) /\ to_add[a].cells = ManagedCells(issues[j])

C2_Witness ==
    /\ Planned
    /\ to_update # <<>>
    /\ \E j \in DOMAIN issues :
         /\ Indexed(issues[j])
         /\ IndexedAs(issues[j]).status = PyS(S_Open)
         /\ issues[j].state = PyS(S_closed)

\* C3: once the plan is made, an issue whose key is in the index with a
\* status equal to its state, case ignored, has no insert entry (none carries
\* its number and title) and no update entry (none sets its row to its state).
C3_NoEntryForUnchangedIssue ==
    Planned =>
        \A j \in DOMAIN issues :
            (Indexed(issues[j]) /\ ~DiffersNoCase(IndexedAs(issues[j]).status, issues[j].state))
            => /\ \A a \in DOMAIN to_add :
                    ~( /\ to_add[a].cells[1].value = issues[j].number
                       /\ to_add[a].cells[2].value = issues[j].title )
               /\ \A u \in DOMAIN to_update :
                    ~( /\ to_update[u].id = IndexedAs(issues[j]).rowId
                       /\ to_update[u].cells[1].value = issues[j].state )

C3_Witness ==
    /\ Planned
    /\ \E j \in DOMAIN issues :
         /\ Indexed(issues[j])
         /\ IndexedAs(issues[j]).status = PyS(S_Open)
         /\ issues[j].state = PyS(S_open)

UniqueKeys(its) ==
    \A i, j \in DOMAIN its :
        (its[i].number = its[j].number /\ its[i].title = its[j].title) => i = j

\* C4: when the previous run completed with every batch succeeding, the
\* tracker has not changed since that run listed its issues, and no two
\* records of the list share a key, this run's plan is empty.
C4_SecondRunPlansNothing ==
    (Planned /\ rerun /\ UniqueKeys(issues))
        => (to_add = <<>> /\ to_update = <<>>)

C4_Witness ==
    /\ pc = "done"
    /\ rerun
    /\ Len(issues) = 2
    /\ UniqueKeys(issues)
    /\ \E i, j \in DOMAIN rows : i # j /\ Len(rows[i].cells) = 3 /\ Len(rows[j].cells) = 3
    /\ \E i \in DOMAIN rows : Len(rows[i].cells) = 4

\* the bodies of the requests of this run with the method, in order
RECURSIVE RowBodies(_, _)
RowBodies(cs, method) ==
    IF cs = <<>> THEN <<>>
    ELSE IF Head(cs).method = method /\ Head(cs).url = RowsUrl
         THEN <<Head(cs).body>> \o RowBodies(Tail(cs), method)
         ELSE RowBodies(Tail(cs), method)

RECURSIVE Concat(_)
Concat(ss) == IF ss = <<>> THEN <<>> ELSE Head(ss) \o Concat(Tail(ss))

\* reqs are ceil(n/b) requests of at most b entries, all but the last of b,
\* that together are the pending list
Batched(reqs, pending, b) ==
    /\ Len(reqs) = (Len(pending) + b - 1) \div b
    /\ \A k \in DOMAIN reqs : Len(reqs[k]) <= b
    /\ \A k \in 1..(Len(reqs) - 1) : Len(reqs[k]) = b
    /\ Concat(reqs) = pending

SixHundredFifty == [i \in 1..650 |-> i]
Chunks650 == chunk(SixHundredFifty, DefaultBatchSize)
Sizes650 == [k \in DOMAIN Chunks650 |-> Len(Chunks650[k])]
Rejoined650 == Concat(Chunks650)

\* C5: when the insert loop is over, the POST row requests of the run are
\* ceil(n/b) requests, each of at most b entries and all but the last of
\* exactly b, whose concatenation is to_add; at the end of the run the same
\* holds of the PUT requests and to_update; and 650 entries in batches of
\* 300 go out as 3 requests of 300, 300 and 50 entries.
C5_Batching ==
    /\ pc \in {"put_rows", "done"}
         => Batched(RowBodies(calls, "POST"), to_add, batch_size)
    /\ pc = "done"
         => Batched(RowBodies(calls, "PUT"), to_update, batch_size)
    /\ Sizes650 = <<300, 300, 50>>
    /\ Rejoined650 = SixHundredFifty

C5_Witness ==
    /\ pc = "done"
    /\ Len(RowBodies(calls, "POST")) = 2
    /\ Len(to_update) = 0
    /\ batch_size = 1

\* the rows the successful batches of this run have committed
RECURSIVE Committed(_)
Committed(cs) ==
    IF cs = <<>> THEN 0
    ELSE (IF Head(cs).url = RowsUrl /\ Head(cs).ok THEN Len(Head(cs).body) ELSE 0)
         + Committed(Tail(cs))

BatchFailed ==
    /\ calls # <<>>
    /\ calls[Len(calls)].url = RowsUrl
    /\ ~calls[Len(calls)].ok

\* C6: when an insert or update batch fails, the run is aborted with the
\* failed request as its last one and no summary printed, and the error
\* surfaced tells how many rows the earlier batches had committed.
C6_WriteErrorReportsCommitted ==
    (\E i \in DOMAIN calls : calls[i].url = RowsUrl /\ ~calls[i].ok)
        => /\ BatchFailed
           /\ pc = "aborted"
           /\ summary = None
           /\ "committed" \in DOMAIN error
           /\ error.committed = Committed(calls)

\* C7: in a run whose configuration lacks a value (None) or has an empty one,
\* check_env has ended the run with exit status 1 and no request was made.
C7_MissingConfigAbortsBeforeRequests ==
    (runs > 0 /\ \E k \in DOMAIN env : env[k] = None \/ env[k] = PyS(<<>>))
        => /\ pc = "exit"
           /\ exit_code = PyI(1)
           /\ calls = <<>>
           /\ columns = start.columns
           /\ rows = start.rows

C7_Witness ==
    /\ pc = "exit"
    /\ runs = 2
    /\ \E k \in DOMAIN env : env[k] = PyS(<<>>)
    /\ \A k \in DOMAIN env : env[k] # None

Titles(cols) == {cols[i].title : i \in DOMAIN cols}

\* C8: a create-column request is only ever sent for a required title that
\* no column of the metadata read by this call has, and once per title; so
\* the sheet never holds two columns of one required title, whatever calls
\* came before and however they ended, and has each of them once a call
\* has returned; a call that read all three titles sends no create request;
\* and all the mappings returned so far are equal.
C8_ColumnsCreatedOnce ==
    /\ \A i \in DOMAIN calls :
         calls[i].url = ColumnsUrl
           => /\ calls[i].body.title \in RequiredSet \ Titles(sheet_meta)
              /\ \A j \in DOMAIN calls :
                   (calls[j].url = ColumnsUrl /\ calls[j].body.title = calls[i].body.title)
                     => j = i
    /\ \A t \in RequiredSet :
         Cardinality({i \in DOMAIN columns : columns[i].title = t}) <= 1
    /\ RequiredSet \subseteq Titles(sheet_meta)
         => \A i \in DOMAIN calls : calls[i].url # ColumnsUrl
    /\ Cardinality(returned) <= 1
    /\ returned # {} => \A t \in RequiredSet : \E i \in DOMAIN columns : columns[i].title = t

C8_Witness ==
    /\ runs > 1
    /\ pc = "collect_log"
    /\ \A i \in DOMAIN calls : calls[i].url # ColumnsUrl
    /\ Cardinality({i \in DOMAIN columns : columns[i].id > Len(AllColumns)}) = 3

\* a listing of the issues or a read of the sheet has failed in this run
FetchFailed == \E i \in DOMAIN calls : calls[i].method = "GET" /\ ~calls[i].ok

\* C9 as claimed: when the issue listing or a sheet read fails, the run is
\* aborted and the sheet's rows and columns are those of the start of the run.
C9_FetchFailureLeavesSheet ==
    FetchFailed
        => /\ pc = "aborted"
           /\ rows = start.rows
           /\ columns = start.columns

\* C9, amended: when the issue listing or a sheet read fails, the run is
\* aborted on that request and the sheet's rows are those of the start of
\* the run; its columns are those of the start of the run, followed by
\* columns of required titles that the sheet lacked at the start.
C9_FetchFailureLeavesRows ==
    FetchFailed
        => /\ pc = "aborted"
           /\ ~calls[Len(calls)].ok
           /\ calls[Len(calls)].method = "GET"
           /\ rows = start.rows
           /\ Len(columns) >= Len(start.columns)
           /\ SubSeq(columns, 1, Len(start.columns)) = start.columns
           /\ \A i \in (Len(start.columns) + 1)..Len(columns) :
                columns[i].title \in RequiredSet \ Titles(start.columns)

C9_Witness ==
    /\ FetchFailed
    /\ calls[Len(calls)].url = MetaUrl
    /\ Len(calls) > 1
    /\ issues # <<>>
    /\ columns # start.columns

\* C10: once collect_github_issues has returned, the run has listed the
\* repository's issues once, and the issues printed are the issues returned.
C10_IssuesFetchedOnce ==
    pc \in {"fetch_rows", "post_rows", "put_rows", "done"}
        => /\ fetches = 1
           /\ logged = issues

====
